---- MODULE Spec2Model ----
(***************************************************************************)
(* A model of vita-elf.c: the loader of the import stubs of a 32-bit ARM   *)
(* executable (load_stubs, load_symbols, lookup_stub_symbols,              *)
(* vita_elf_load, vita_elf_free) and the resolver of those stubs against   *)
(* an import database (lookup_stubs, vita_elf_lookup_imports).             *)
(*                                                                         *)
(* Three specifications share the variables:                               *)
(*   SpecLoaders  load_stubs / load_symbols applied to one section that    *)
(*                libelf delivers in chunks;                               *)
(*   Spec         vita_elf_load, one step per stage and per section;       *)
(*   SpecResolve  vita_elf_lookup_imports called repeatedly on a session.  *)
(***************************************************************************)
EXTENDS Integers, Sequences, FiniteSets, TLC

VARIABLES
    pc,           \* where the operation under way stands
    scn,          \* the section handed to a loader
    out,          \* the last call of a helper: what it was given and returned
    calloc0_null, \* whether calloc(0, n) returns NULL on this platform
    ve,           \* the vita_elf_t of vita_elf_load, then the caller's session
    ret,          \* what vita_elf_load returned
    acq,          \* per resource, how many were acquired
    rel,          \* per resource, how many were released
    scanned,      \* how many sections of each kind elf_nextscn has returned
    failedAt,     \* the FAIL that was taken, if any
    imports,      \* the database of the last vita_elf_lookup_imports
    found_all,    \* what the last vita_elf_lookup_imports returned
    diag,         \* the warnx lines of the last vita_elf_lookup_imports
    ncalls        \* calls of vita_elf_lookup_imports so far

loaderVars == <<scn>>
loadVars == <<calloc0_null, ret, acq, rel, scanned, failedAt>>
resolveVars == <<imports, found_all, diag, ncalls>>
vars == <<pc, out, ve, loaderVars, loadVars, resolveVars>>

----------------------------------------------------------------------------
(* Bounds of the model.                                                    *)

\* stub entries a stub section may hold (plus a partial tail)
MaxStubs == 2
\* chunks elf_getdata may deliver for one section
MaxChunks == 3
\* entries of a symbol table, the null symbol at index 0 included
MaxSyms == 3
\* width of an address in bits (the program's is 32)
AddrBits == 7

AddrMod == 2 ^ AddrBits

----------------------------------------------------------------------------
(* Program constants.                                                      *)

\* bytes of one stub entry: chunk_offset += 16, sh_size / 16
StubEntSize == 16
\* bytes of one uint32_t of stub_data
WordSize == 4
STB_LOCAL == 0
STB_GLOBAL == 1
STT_NOTYPE == 0
STT_OBJECT == 1
STT_FUNC == 2

\* a NULL pointer to a symbol (symbols are referred to by their table index)
NoSym == 0 - 1
\* a NULL pointer to a library, module or target of the import database
NULL == <<>>

Max(a, b) == IF a > b THEN a ELSE b

----------------------------------------------------------------------------
(* Section data as libelf delivers it: a sequence of chunks (Elf_Data),    *)
(* each with its offset d_off in the section and its size d_size, which    *)
(* together cover the section in order.                                    *)

RECURSIVE CutsToChunks(_, _, _)
CutsToChunks(cuts, from, size) ==
    IF cuts = {} THEN <<[d_off |-> from, d_size |-> size - from]>>
    ELSE LET c == CHOOSE x \in cuts : \A y \in cuts : x <= y
         IN  <<[d_off |-> from, d_size |-> c - from]>>
             \o CutsToChunks(cuts \ {c}, c, size)

\* every delivery of `size` bytes in at most MaxChunks chunks whose
\* boundaries are multiples of `unit` bytes
Chunkings(size, unit) ==
    IF size = 0 THEN {<<>>}
    ELSE LET points == {p \in 1..(size - 1) : p % unit = 0}
         IN  {CutsToChunks(cs, 0, size) :
                 cs \in {s \in SUBSET points : Cardinality(s) < MaxChunks}}

\* the bytes of a section: a fixed pattern per seed, all below 128 so that a
\* 32-bit word stays within TLC's integers
SectionBytes(seed, size) == [k \in 1..size |-> (seed * 29 + k * 7) % 128]

\* le32toh dropped on a big-endian host: the bytes taken most significant first
le32toh_BigEndian(bytes, off) ==
    16777216 * bytes[off + 1] + 65536 * bytes[off + 2] + 256 * bytes[off + 3]
        + bytes[off + 4]

\* the little-endian 32-bit word at byte offset `off` of `bytes`
\* (the load of stub_data[j] followed by le32toh)
le32toh(bytes, off) ==
    bytes[off + 1] + 256 * bytes[off + 2] + 65536 * bytes[off + 3]
        + 16777216 * bytes[off + 4]

----------------------------------------------------------------------------
(* load_stubs                                                              *)

\* a stub as calloc leaves it
ZeroStub ==
    [addr |-> 0, library_nid |-> 0, module_nid |-> 0, target_nid |-> 0,
     symbol |-> NoSym, library |-> NULL, module |-> NULL, target |-> NULL]

\* stub_data[j] of the entry at chunk_offset of chunk c: a word of the
\* chunk's buffer, or whatever lies behind the buffer when the entry
\* reaches past d_size
StubWord(s, c, chunk_offset, j) ==
    IF chunk_offset + WordSize * (j + 1) <= c.d_size
    THEN le32toh(s.data, c.d_off + chunk_offset + WordSize * j)
    ELSE s.junk

\* the address computed without the chunk's own offset d_off
DecodeStub_NoChunkOffset(s, c, chunk_offset) ==
    [ZeroStub EXCEPT
        !.addr = (s.sh_addr + chunk_offset) % AddrMod,
        !.library_nid = StubWord(s, c, chunk_offset, 0),
        !.module_nid = StubWord(s, c, chunk_offset, 1),
        !.target_nid = StubWord(s, c, chunk_offset, 2)]

\* the body of the inner for loop, lines 52-55
DecodeStub(s, c, chunk_offset) ==
    [ZeroStub EXCEPT
        !.addr = (s.sh_addr + c.d_off + chunk_offset) % AddrMod,
        !.library_nid = StubWord(s, c, chunk_offset, 0),
        !.module_nid = StubWord(s, c, chunk_offset, 1),
        !.target_nid = StubWord(s, c, chunk_offset, 2)]

\* the inner for loop over one chunk: the stubs it writes, in order
RECURSIVE StubsOfChunk(_, _, _)
StubsOfChunk(s, c, chunk_offset) ==
    IF chunk_offset < c.d_size
    THEN <<DecodeStub(s, c, chunk_offset)>>
         \o StubsOfChunk(s, c, chunk_offset + StubEntSize)
    ELSE <<>>

\* the while loop over the chunks: every stub written through curstub
RECURSIVE StubWrites(_, _, _)
StubWrites(s, i, total_bytes) ==
    IF total_bytes < s.sh_size /\ i <= Len(s.chunks)
    THEN StubsOfChunk(s, s.chunks[i], 0)
         \o StubWrites(s, i + 1, total_bytes + s.chunks[i].d_size)
    ELSE <<>>

\* load_stubs: num_stubs, the calloc'ed array after the writes that fall
\* inside it, and the number of writes that fell behind it
load_stubs(s) ==
    LET num == s.sh_size \div StubEntSize
        w   == StubWrites(s, 1, 0)
    IN  [num_stubs |-> num,
         stubs |-> [i \in 1..num |-> IF i <= Len(w) THEN w[i] ELSE ZeroStub],
         overrun |-> Max(Len(w) - num, 0)]

----------------------------------------------------------------------------
(* load_symbols                                                            *)

\* elf_strptr on the linked string table "\0foo\0bar\0"
elf_strptr(st_name) ==
    CASE st_name = 1 -> "foo"
      [] st_name = 5 -> "bar"
      [] OTHER -> ""

\* a symbol as calloc leaves it
ZeroSym ==
    [name |-> "(null)", value |-> 0, type |-> 0, binding |-> 0, shndx |-> 0]

\* lines 95-99: the record gelf_getsym filled in, copied into *cursym
\* (GELF_ST_TYPE is the low nibble of st_info, GELF_ST_BIND the high one)
DecodeSym(sym) ==
    [name |-> elf_strptr(sym.st_name),
     value |-> sym.st_value,
     type |-> sym.st_info % 16,
     binding |-> sym.st_info \div 16,
     shndx |-> sym.st_shndx]

\* the inner for loop over one chunk from symndx on: the writes
\* <<slot, record>> it makes before it ends or gelf_getsym fails; a failure
\* ends the list with <<-1, ZeroSym>>
RECURSIVE SymsOfChunk(_, _, _)
SymsOfChunk(s, c, symndx) ==
    LET data_beginsym == c.d_off \div s.sh_entsize
    IN  IF symndx < c.d_size \div s.sh_entsize
        THEN IF data_beginsym + symndx = s.bad
             THEN <<[slot |-> 0 - 1, sym |-> ZeroSym]>>
             ELSE <<[slot |-> symndx + data_beginsym,
                     sym |-> DecodeSym(s.syms[data_beginsym + symndx + 1])]>>
                  \o SymsOfChunk(s, c, symndx + 1)
        ELSE <<>>

\* sh_info taken as an index within the chunk, whatever the chunk's first symbol
FirstSymndx_NoChunkBase(s, c) ==
    LET data_beginsym == c.d_off \div s.sh_entsize
    IN  IF s.sh_info > data_beginsym THEN s.sh_info ELSE 0

\* line 87: the index within the chunk at which decoding starts
FirstSymndx(s, c) ==
    LET data_beginsym == c.d_off \div s.sh_entsize
    IN  IF s.sh_info > data_beginsym THEN s.sh_info - data_beginsym ELSE 0

Failed(w) == Len(w) > 0 /\ w[Len(w)].slot < 0

\* the while loop over the chunks
RECURSIVE SymWrites(_, _, _)
SymWrites(s, i, total_bytes) ==
    IF total_bytes < s.sh_size /\ i <= Len(s.chunks)
    THEN LET w == SymsOfChunk(s, s.chunks[i], FirstSymndx(s, s.chunks[i]))
         IN  IF Failed(w) THEN w
             ELSE w \o SymWrites(s, i + 1, total_bytes + s.chunks[i].d_size)
    ELSE <<>>

\* the array after the writes w, the later write to a slot winning
RECURSIVE ApplySymWrites(_, _)
ApplySymWrites(tab, w) ==
    IF w = <<>> \/ w[1].slot < 0 THEN tab
    ELSE ApplySymWrites([tab EXCEPT ![w[1].slot + 1] = w[1].sym], Tail(w))

\* load_symbols past the check of ve->symtab: whether it returned 1,
\* num_symbols, the array (slot i of the program at i + 1), and the slots
\* written, in order
load_symbols(s) ==
    LET num == s.sh_size \div s.sh_entsize
        w   == SymWrites(s, 1, 0)
    IN  [ok |-> ~Failed(w),
         num_symbols |-> num,
         symtab |-> ApplySymWrites([i \in 1..num |-> ZeroSym], w),
         slots |-> [k \in 1..(Len(w) - (IF Failed(w) THEN 1 ELSE 0)) |-> w[k].slot]]

----------------------------------------------------------------------------
(* SpecLoaders: one section, drawn with its delivery, and the loader       *)
(* applied to it.                                                          *)

\* section base addresses, the last ones close to the top of the address space
Bases == {16, 36, AddrMod - 32, AddrMod - 16}

\* stub sections: any size that is a multiple of a word up to MaxStubs
\* entries, delivered in chunks cut at any word boundary
StubSections ==
    UNION {
      {[kind |-> "stubs", sh_addr |-> b, sh_size |-> size,
        data |-> SectionBytes(seed, size), chunks |-> ch, junk |-> 99]
         : b \in Bases, seed \in 0..1, ch \in Chunkings(size, WordSize)}
      : size \in {n * WordSize : n \in 0..(MaxStubs * (StubEntSize \div WordSize))}}

\* the symbol records a file may hold
FileSyms ==
    {[st_name |-> 1, st_value |-> 16, st_info |-> 16 * STB_GLOBAL + STT_FUNC, st_shndx |-> 1],
     [st_name |-> 5, st_value |-> 32, st_info |-> 16 * STB_GLOBAL + STT_OBJECT, st_shndx |-> 2],
     [st_name |-> 0, st_value |-> 0, st_info |-> 16 * STB_LOCAL + STT_NOTYPE, st_shndx |-> 0]}

SeqsUpTo(S, n) == UNION {[1..k -> S] : k \in 0..n}

\* symbol tables: libelf delivers a symbol table as whole Elf32_Sym records
\* (typed ELF_T_SYM data), so the chunks are cut at entry boundaries; sh_info
\* is whatever the header says; gelf_getsym may fail on one record (bad)
SymSections ==
    UNION {
      {[kind |-> "symtab", sh_size |-> Len(syms) * es, sh_entsize |-> es,
        sh_info |-> info, syms |-> syms, chunks |-> ch, bad |-> bad]
         : info \in 0..(Len(syms) + 1), ch \in Chunkings(Len(syms) * es, es),
           bad \in {0 - 1} \cup (0..(Len(syms) - 1))}
      : syms \in SeqsUpTo(FileSyms, MaxSyms), es \in {16, 24}}

NoOut == [kind |-> "none"]
Unused == "unused"

InitLoaders ==
    /\ pc = "section"
    /\ scn \in StubSections \cup SymSections
    /\ out = NoOut
    /\ ve = Unused /\ calloc0_null = FALSE
    /\ ret = Unused /\ acq = Unused /\ rel = Unused
    /\ scanned = Unused /\ failedAt = Unused /\ imports = Unused
    /\ found_all = Unused /\ diag = Unused /\ ncalls = Unused

ApplyLoadStubs ==
    /\ pc = "section" /\ scn.kind = "stubs"
    /\ out' = [kind |-> "stubs", res |-> load_stubs(scn)]
    /\ pc' = "loaded"
    /\ UNCHANGED <<ve, loaderVars, loadVars, resolveVars>>

ApplyLoadSymbols ==
    /\ pc = "section" /\ scn.kind = "symtab"
    /\ out' = [kind |-> "symtab", res |-> load_symbols(scn)]
    /\ pc' = "loaded"
    /\ UNCHANGED <<ve, loaderVars, loadVars, resolveVars>>

NextLoaders == ApplyLoadStubs \/ ApplyLoadSymbols

SpecLoaders == InitLoaders /\ [][NextLoaders]_vars

----------------------------------------------------------------------------
(* Claims about the loaders (SpecLoaders).                                 *)

\* the same section delivered by elf_getdata as one chunk
OneChunk(s) ==
    [s EXCEPT !.chunks = IF s.sh_size = 0 THEN <<>>
                         ELSE <<[d_off |-> 0, d_size |-> s.sh_size]>>]

\* every chunk starts on an entry boundary: it holds whole entries only
EntryAligned(s, entsize) ==
    \A i \in 1..Len(s.chunks) : s.chunks[i].d_off % entsize = 0

SameArrays ==
    /\ out.kind = "stubs" =>
          /\ out.res.num_stubs = load_stubs(OneChunk(scn)).num_stubs
          /\ out.res.stubs = load_stubs(OneChunk(scn)).stubs
    /\ out.kind = "symtab" =>
          /\ out.res.ok = load_symbols(OneChunk(scn)).ok
          /\ out.res.num_symbols = load_symbols(OneChunk(scn)).num_symbols
          /\ out.res.symtab = load_symbols(OneChunk(scn)).symtab

\* C5, as stated: whatever the sizes of the chunks a section is delivered
\* in, load_stubs and load_symbols decode the arrays they decode from the
\* section delivered as a single chunk.
C5_AnyChunking == pc = "loaded" => SameArrays

\* C5, amended: when every chunk holds whole entries (each chunk starts at a
\* multiple of the entry size: 16 bytes for stubs, sh_entsize for symbols),
\* load_stubs and load_symbols decode the arrays they decode from the
\* section delivered as a single chunk.
C5_WholeEntryChunking ==
    (/\ pc = "loaded"
     /\ out.kind = "stubs" => EntryAligned(scn, StubEntSize)
     /\ out.kind = "symtab" => EntryAligned(scn, scn.sh_entsize))
    => SameArrays

\* two stubs decoded from three chunks of whole entries
C5_Witness ==
    /\ pc = "loaded" /\ out.kind = "stubs"
    /\ Len(scn.chunks) >= 2 /\ EntryAligned(scn, StubEntSize)
    /\ out.res.num_stubs >= 2
    /\ out.res.stubs[2].addr = (scn.sh_addr + StubEntSize) % AddrMod

\* byte k (0..3) of a 32-bit word
ByteOf(word, k) == (word \div (256 ^ k)) % 256

\* word j of the i-th 16-byte entry holds, least significant byte first,
\* the bytes of the section at 16*i + 4*j
IsWordOfEntry(nid, i, j) ==
    \A k \in 0..3 : ByteOf(nid, k) = scn.data[StubEntSize * i + WordSize * j + k + 1]

StubSectionOfWholeEntries ==
    /\ pc = "loaded" /\ out.kind = "stubs"
    /\ scn.sh_size % StubEntSize = 0
    /\ EntryAligned(scn, StubEntSize)

NidsOfEntries ==
    \A i \in 0..(out.res.num_stubs - 1) :
        /\ IsWordOfEntry(out.res.stubs[i + 1].library_nid, i, 0)
        /\ IsWordOfEntry(out.res.stubs[i + 1].module_nid, i, 1)
        /\ IsWordOfEntry(out.res.stubs[i + 1].target_nid, i, 2)

\* C6, as stated: a stub section of N*16 bytes (delivered in chunks of whole
\* entries) yields exactly N records, record i with address
\* section_base + 16*i and the NIDs of words 0, 1, 2 of entry i; the
\* addresses are strictly ascending in array order.
C6_AddressesAscend ==
    StubSectionOfWholeEntries =>
        /\ out.res.num_stubs * StubEntSize = scn.sh_size
        /\ Len(out.res.stubs) = out.res.num_stubs
        /\ out.res.overrun = 0
        /\ NidsOfEntries
        /\ \A i \in 0..(out.res.num_stubs - 1) :
              out.res.stubs[i + 1].addr = scn.sh_addr + StubEntSize * i
        /\ \A i, j \in 1..out.res.num_stubs :
              i < j => out.res.stubs[i].addr < out.res.stubs[j].addr

\* C6, amended: a stub section of N*16 bytes (delivered in chunks of whole
\* entries) yields exactly N records, record i with address
\* (section_base + 16*i) modulo the width of an address and the NIDs of
\* words 0, 1, 2 of entry i; the addresses are pairwise distinct, and
\* strictly ascending in array order when the section does not reach past
\* the top of the address space.
C6_AddressesModWidth ==
    StubSectionOfWholeEntries =>
        /\ out.res.num_stubs * StubEntSize = scn.sh_size
        /\ Len(out.res.stubs) = out.res.num_stubs
        /\ out.res.overrun = 0
        /\ NidsOfEntries
        /\ \A i \in 0..(out.res.num_stubs - 1) :
              out.res.stubs[i + 1].addr = (scn.sh_addr + StubEntSize * i) % AddrMod
        /\ \A i, j \in 1..out.res.num_stubs :
              i # j => out.res.stubs[i].addr # out.res.stubs[j].addr
        /\ scn.sh_addr + scn.sh_size <= AddrMod =>
              \A i, j \in 1..out.res.num_stubs :
                  i < j => out.res.stubs[i].addr < out.res.stubs[j].addr

\* a section of two entries whose second stub lies 16 bytes after the first
C6_Witness ==
    /\ StubSectionOfWholeEntries
    /\ out.res.num_stubs = 2
    /\ scn.sh_addr + scn.sh_size <= AddrMod
    /\ out.res.stubs[2].addr = out.res.stubs[1].addr + StubEntSize
    /\ out.res.stubs[2].target_nid # out.res.stubs[1].target_nid

\* how often load_symbols wrote slot idx
TimesDecoded(idx) ==
    Cardinality({k \in 1..Len(out.res.slots) : out.res.slots[k] = idx})

SymbolsLoaded == pc = "loaded" /\ out.kind = "symtab" /\ out.res.ok

\* slot idx holds the fields of record idx of the table
HoldsRecord(idx) ==
    LET cursym == out.res.symtab[idx + 1]
        sym == scn.syms[idx + 1]
    IN  /\ cursym.value = sym.st_value
        /\ cursym.shndx = sym.st_shndx
        /\ cursym.binding * 16 + cursym.type = sym.st_info
        /\ cursym.name = elf_strptr(sym.st_name)

----------------------------------------------------------------------------
(* lookup_stub_symbols                                                     *)

\* the first stub at or after `stub` whose address is `value`, or
\* num_stubs + 1 when there is none (lines 130-132; stub k of the program
\* is stubs[k + 1])
RECURSIVE FindStub(_, _, _, _)
FindStub(stubs, num_stubs, value, stub) ==
    IF stub > num_stubs THEN stub
    ELSE IF stubs[stub].addr # value
         THEN FindStub(stubs, num_stubs, value, stub + 1)
         ELSE stub

\* lines 119-124: the symbols the loop passes over
SkipsSymbol_AnySection(cursym, stubs_ndx) ==
    \/ cursym.binding # STB_GLOBAL
    \/ (cursym.type # STT_FUNC /\ cursym.type # STT_OBJECT)

SkipsSymbol(cursym, stubs_ndx) ==
    \/ cursym.binding # STB_GLOBAL
    \/ (cursym.type # STT_FUNC /\ cursym.type # STT_OBJECT)
    \/ cursym.shndx # stubs_ndx

\* line 133: the stub found holds a symbol already
HasSymbol_Never(s) == FALSE

HasSymbol(s) == s.symbol # NoSym

\* the for loop over the symbols from symndx on: whether it ran to the end,
\* the FAILX it took otherwise, and the stubs as it left them
RECURSIVE CorrelateFrom(_, _, _, _, _, _)
CorrelateFrom(v, num_stubs, stubs, stubs_ndx, sym_type, symndx) ==
    IF symndx >= v.num_symbols THEN [ok |-> TRUE, err |-> "", stubs |-> stubs]
    ELSE LET cursym == v.symtab[symndx + 1]
             stub == FindStub(stubs, num_stubs, cursym.value, 1)
         IN  IF SkipsSymbol(cursym, stubs_ndx)
             THEN CorrelateFrom(v, num_stubs, stubs, stubs_ndx, sym_type, symndx + 1)
             ELSE IF cursym.type # sym_type
             THEN [ok |-> FALSE, err |-> "type", stubs |-> stubs]
             ELSE IF stub > num_stubs
             THEN [ok |-> FALSE, err |-> "dangling", stubs |-> stubs]
             ELSE IF HasSymbol(stubs[stub])
             THEN [ok |-> FALSE, err |-> "duplicate", stubs |-> stubs]
             ELSE CorrelateFrom(v, num_stubs,
                                [stubs EXCEPT ![stub].symbol = symndx],
                                stubs_ndx, sym_type, symndx + 1)

lookup_stub_symbols(v, num_stubs, stubs, stubs_ndx, sym_type) ==
    CorrelateFrom(v, num_stubs, stubs, stubs_ndx, sym_type, 0)

----------------------------------------------------------------------------
(* vita_elf_free                                                           *)

Resources == {"ve", "fd", "elf", "fstubs", "vstubs", "symtab"}

\* the vita_elf_t before vita_elf_load allocates it, and after free(ve)
NoVe ==
    [alloc |-> FALSE, fd |-> 0 - 1, elf |-> FALSE,
     fstubs_ndx |-> 0, num_fstubs |-> 0, fstubs_ptr |-> FALSE, fstubs |-> <<>>,
     vstubs_ndx |-> 0, num_vstubs |-> 0, vstubs_ptr |-> FALSE, vstubs |-> <<>>,
     num_symbols |-> 0, symtab_ptr |-> FALSE, symtab |-> <<>>]

\* vita_elf_free without free(ve->symtab)
Freed_SymtabLeft(v) ==
    {r \in Resources :
        \/ r = "fstubs" /\ v.fstubs_ptr
        \/ r = "vstubs" /\ v.vstubs_ptr
        \/ r = "elf" /\ v.elf
        \/ r = "fd" /\ v.fd >= 0
        \/ r = "ve"}

\* the resources vita_elf_free releases, given what ve holds: free() of a
\* NULL array releases nothing
Freed(v) ==
    {r \in Resources :
        \/ r = "fstubs" /\ v.fstubs_ptr
        \/ r = "vstubs" /\ v.vstubs_ptr
        \/ r = "symtab" /\ v.symtab_ptr
        \/ r = "elf" /\ v.elf
        \/ r = "fd" /\ v.fd >= 0
        \/ r = "ve"}

\* the release counts after vita_elf_free(v)
vita_elf_free(v, r) ==
    [x \in Resources |-> IF x \in Freed(v) THEN r[x] + 1 ELSE r[x]]

----------------------------------------------------------------------------
(* Spec: vita_elf_load. The file is read as the load goes: each step draws *)
(* what libelf answers next.                                               *)

\* sections a file may hold besides the null section at index 0
MaxSections == 3

SHT_PROGBITS == 1
SHT_SYMTAB == 2
SHT_NOBITS == 8

\* the headers of the sections a file may hold: the two stub sections, a
\* symbol table, and two sections that are none of them (one by its name,
\* one by its type)
FileSections ==
    {[sh_type |-> SHT_PROGBITS, name |-> ".vitalink.fstubs"],
     [sh_type |-> SHT_PROGBITS, name |-> ".vitalink.vstubs"],
     [sh_type |-> SHT_SYMTAB, name |-> ".symtab"],
     [sh_type |-> SHT_PROGBITS, name |-> ".text"],
     [sh_type |-> SHT_NOBITS, name |-> ".vitalink.fstubs"]}

\* the data of a stub section: libelf hands the data of a section it read
\* from a file over as a single chunk; a size that is no multiple of 16
\* leaves a partial entry at the end
FileStubs ==
    {OneChunk([kind |-> "stubs", sh_addr |-> 16, sh_size |-> size,
               data |-> SectionBytes(0, size), chunks |-> <<>>, junk |-> 99])
       : size \in {n * StubEntSize : n \in 0..MaxStubs} \cup {StubEntSize + 8}}

\* the symbols a file may hold after the null symbol: global functions in
\* section 1 at the addresses of the first two stubs, a global object in
\* section 2, a local function and a global symbol of another kind (the
\* stub sections may lie at 1 and 2 either way round, or elsewhere)
FileGlobals ==
    {[st_name |-> 1, st_value |-> v, st_info |-> 16 * STB_GLOBAL + STT_FUNC, st_shndx |-> 1]
        : v \in {16, 32}}
    \cup {[st_name |-> 5, st_value |-> 16, st_info |-> 16 * STB_GLOBAL + STT_OBJECT, st_shndx |-> 2],
          [st_name |-> 5, st_value |-> 16, st_info |-> 16 * STB_LOCAL + STT_FUNC, st_shndx |-> 1],
          [st_name |-> 5, st_value |-> 16, st_info |-> 16 * STB_GLOBAL + STT_NOTYPE, st_shndx |-> 1]}

NullSym == [st_name |-> 0, st_value |-> 0, st_info |-> 0, st_shndx |-> 0]

\* the data of a symbol table: empty, or the null symbol and some more;
\* gelf_getsym may fail on the first symbol it is asked for
FileSymtabs ==
    {OneChunk([kind |-> "symtab", sh_size |-> Len(syms) * 16,
               sh_entsize |-> 16, sh_info |-> 1, syms |-> syms,
               chunks |-> <<>>, bad |-> bad])
       : syms \in {<<>>} \cup {<<NullSym>> \o g : g \in SeqsUpTo(FileGlobals, MaxSyms - 1)},
         bad \in {0 - 1, 1}}

SectionKinds == {"fstubs", "vstubs", "symtab", "other"}

\* sections returned so far; the next one has index NumScanned + 1
NumScanned ==
    scanned["fstubs"] + scanned["vstubs"] + scanned["symtab"] + scanned["other"]

Count(kind) == scanned' = [scanned EXCEPT ![kind] = @ + 1]

NoCounts == [x \in Resources |-> 0]

InitLoad ==
    /\ pc = "elf_version"
    /\ calloc0_null \in BOOLEAN
    /\ ve = NoVe
    /\ ret = "pending"
    /\ acq = NoCounts /\ rel = NoCounts
    /\ scanned = [k \in SectionKinds |-> 0]
    /\ failedAt = "none"
    /\ out = NoOut
    /\ scn = Unused
    /\ imports = Unused /\ found_all = Unused /\ diag = Unused /\ ncalls = Unused

Acquire(r) == acq' = [acq EXCEPT ![r] = @ + 1]

\* FAIL..., then the failure label of vita_elf_load (lines 234-237):
\* vita_elf_free(ve) when ve was allocated, and NULL returned
Failure(v, why) ==
    /\ failedAt' = why
    /\ rel' = IF v.alloc THEN vita_elf_free(v, rel) ELSE rel
    /\ ve' = NoVe
    /\ ret' = "NULL"
    /\ pc' = "done"

\* line 160
ElfVersion ==
    /\ pc = "elf_version"
    /\ \E ok \in BOOLEAN :
          IF ok THEN /\ pc' = "calloc"
                     /\ UNCHANGED <<ve, ret, rel, failedAt>>
          ELSE Failure(ve, "elf_version")
    /\ UNCHANGED <<out, acq, scanned, calloc0_null, loaderVars, resolveVars>>

\* lines 163-165
AllocVe ==
    /\ pc = "calloc"
    /\ \E ok \in BOOLEAN :
          IF ok THEN /\ ve' = [NoVe EXCEPT !.alloc = TRUE]
                     /\ Acquire("ve")
                     /\ pc' = "open"
                     /\ UNCHANGED <<ret, rel, failedAt>>
          ELSE Failure(ve, "calloc") /\ UNCHANGED acq
    /\ UNCHANGED <<out, scanned, calloc0_null, loaderVars, resolveVars>>

\* line 167
OpenFile ==
    /\ pc = "open"
    /\ \E fd \in {0 - 1, 3} :
          IF fd >= 0 THEN /\ ve' = [ve EXCEPT !.fd = fd]
                          /\ Acquire("fd")
                          /\ pc' = "elf_begin"
                          /\ UNCHANGED <<ret, rel, failedAt>>
          ELSE Failure([ve EXCEPT !.fd = fd], "open") /\ UNCHANGED acq
    /\ UNCHANGED <<out, scanned, calloc0_null, loaderVars, resolveVars>>

\* line 170
ElfBegin ==
    /\ pc = "elf_begin"
    /\ \E ok \in BOOLEAN :
          IF ok THEN /\ ve' = [ve EXCEPT !.elf = TRUE]
                     /\ Acquire("elf")
                     /\ pc' = "header"
                     /\ UNCHANGED <<ret, rel, failedAt>>
          ELSE Failure(ve, "elf_begin") /\ UNCHANGED acq
    /\ UNCHANGED <<out, scanned, calloc0_null, loaderVars, resolveVars>>

\* lines 173-186: the checks of the file's kind, header, machine, class and
\* byte order, and elf_getshdrstrndx
HeaderChecks ==
    {"elf_kind", "getehdr", "e_machine", "e_ident", "getshdrstrndx"}

CheckHeader ==
    /\ pc = "header"
    /\ \E bad \in HeaderChecks \cup {"none"} :
          IF bad = "none" THEN /\ pc' = "scan"
                               /\ UNCHANGED <<ve, ret, rel, failedAt>>
          ELSE Failure(ve, bad)
    /\ UNCHANGED <<out, acq, scanned, calloc0_null, loaderVars, resolveVars>>

\* calloc(n, size): NULL only for n = 0, where the platform decides
CallocNonNull(n) == n > 0 \/ ~calloc0_null

IsStubSection(s, name) == s.sh_type = SHT_PROGBITS /\ s.name = name

\* lines 200-201 and 206-207: ve after load_stubs on a stub section
WithFstubs(v, body, ndx) ==
    LET r == load_stubs(body)
    IN  [v EXCEPT !.fstubs_ndx = ndx, !.num_fstubs = r.num_stubs,
                  !.fstubs_ptr = CallocNonNull(r.num_stubs), !.fstubs = r.stubs]

WithVstubs(v, body, ndx) ==
    LET r == load_stubs(body)
    IN  [v EXCEPT !.vstubs_ndx = ndx, !.num_vstubs = r.num_stubs,
                  !.vstubs_ptr = CallocNonNull(r.num_stubs), !.vstubs = r.stubs]

\* lines 79-80 and the loop: ve after load_symbols got past its first check
WithSymtab(v, body) ==
    LET r == load_symbols(body)
    IN  [v EXCEPT !.num_symbols = r.num_symbols,
                  !.symtab_ptr = CallocNonNull(r.num_symbols), !.symtab = r.symtab]

\* line 74: load_symbols refuses a second symbol table
HasSymtab(v) == v.symtab_ptr

\* one turn of the loop over the sections, lines 190-215: the headers of the
\* next section are read, and its data when it is one of the three
ScanStubs(s, ndx, name, what) ==
    /\ IsStubSection(s, name)
    /\ Count(what)
    /\ IF (IF name = ".vitalink.fstubs" THEN ve.fstubs_ndx ELSE ve.vstubs_ndx) # 0
       THEN Failure(ve, "multiple_" \o what) /\ UNCHANGED acq
       ELSE \E body \in FileStubs :
            /\ ve' = IF name = ".vitalink.fstubs" THEN WithFstubs(ve, body, ndx)
                     ELSE WithVstubs(ve, body, ndx)
            /\ acq' = IF CallocNonNull(load_stubs(body).num_stubs)
                      THEN [acq EXCEPT ![what] = @ + 1] ELSE acq
            \* a partial entry at the end is written behind the array:
            \* the program may die there, or go on
            /\ \/ pc' = "scan"
               \/ load_stubs(body).overrun > 0 /\ pc' = "crashed"
            /\ UNCHANGED <<ret, rel, failedAt>>

ScanSymtab(s) ==
    /\ s.sh_type = SHT_SYMTAB
    /\ Count("symtab")
    /\ IF HasSymtab(ve)
       THEN Failure(ve, "multiple_symtab") /\ UNCHANGED acq
       ELSE \E body \in FileSymtabs :
            /\ acq' = IF CallocNonNull(load_symbols(body).num_symbols)
                      THEN [acq EXCEPT !["symtab"] = @ + 1] ELSE acq
            /\ IF load_symbols(body).ok
               THEN /\ ve' = WithSymtab(ve, body)
                    /\ pc' = "scan"
                    /\ UNCHANGED <<ret, rel, failedAt>>
               ELSE Failure(WithSymtab(ve, body), "gelf_getsym")

ScanOther(s) ==
    /\ s.sh_type # SHT_SYMTAB
    /\ ~IsStubSection(s, ".vitalink.fstubs")
    /\ ~IsStubSection(s, ".vitalink.vstubs")
    /\ Count("other")
    /\ pc' = "scan"
    /\ UNCHANGED <<ve, ret, acq, rel, failedAt>>

ScanSection ==
    /\ pc = "scan"
    /\ NumScanned < MaxSections
    /\ \E s \in FileSections :
          \/ ScanStubs(s, NumScanned + 1, ".vitalink.fstubs", "fstubs")
          \/ ScanStubs(s, NumScanned + 1, ".vitalink.vstubs", "vstubs")
          \/ ScanSymtab(s)
          \/ ScanOther(s)
    /\ UNCHANGED <<out, calloc0_null, loaderVars, resolveVars>>

\* lines 191-195: gelf_getshdr or elf_strptr fails on the next section
ScanFails ==
    /\ pc = "scan"
    /\ NumScanned < MaxSections
    /\ \E why \in {"getshdr", "elf_strptr"} : Failure(ve, why)
    /\ UNCHANGED <<out, acq, scanned, calloc0_null, loaderVars, resolveVars>>

\* elf_nextscn returns NULL; lines 217-221
EndOfSections ==
    /\ pc = "scan"
    /\ IF ve.fstubs_ndx = 0 /\ ve.vstubs_ndx = 0
       THEN Failure(ve, "no_stubs")
       ELSE IF ~ve.symtab_ptr
       THEN Failure(ve, "no_symtab")
       ELSE pc' = "lookup_fstubs" /\ UNCHANGED <<ve, ret, rel, failedAt>>
    /\ UNCHANGED <<out, acq, scanned, calloc0_null, loaderVars, resolveVars>>

\* what `out` keeps of a call of lookup_stub_symbols
Correlated(v, num_stubs, stubs, stubs_ndx, sym_type) ==
    [kind |-> "correlate", num_symbols |-> v.num_symbols, symtab |-> v.symtab,
     num_stubs |-> num_stubs, stubs |-> stubs, stubs_ndx |-> stubs_ndx,
     sym_type |-> sym_type,
     res |-> lookup_stub_symbols(v, num_stubs, stubs, stubs_ndx, sym_type)]

\* lines 223-225
LookupFstubs ==
    /\ pc = "lookup_fstubs"
    /\ IF ve.fstubs_ndx # 0
       THEN LET c == Correlated(ve, ve.num_fstubs, ve.fstubs, ve.fstubs_ndx, STT_FUNC)
            IN  /\ out' = c
                /\ IF c.res.ok
                   THEN /\ ve' = [ve EXCEPT !.fstubs = c.res.stubs]
                        /\ pc' = "lookup_vstubs"
                        /\ UNCHANGED <<ret, rel, failedAt>>
                   ELSE Failure([ve EXCEPT !.fstubs = c.res.stubs], "lookup_fstubs")
       ELSE /\ pc' = "lookup_vstubs"
            /\ UNCHANGED <<out, ve, ret, rel, failedAt>>
    /\ UNCHANGED <<acq, scanned, calloc0_null, loaderVars, resolveVars>>

\* lines 227-232
LookupVstubs ==
    /\ pc = "lookup_vstubs"
    /\ IF ve.vstubs_ndx # 0
       THEN LET c == Correlated(ve, ve.num_vstubs, ve.vstubs, ve.vstubs_ndx, STT_OBJECT)
            IN  /\ out' = c
                /\ IF c.res.ok
                   THEN /\ ve' = [ve EXCEPT !.vstubs = c.res.stubs]
                        /\ ret' = "ve"
                        /\ pc' = "done"
                        /\ UNCHANGED <<rel, failedAt>>
                   ELSE Failure([ve EXCEPT !.vstubs = c.res.stubs], "lookup_vstubs")
       ELSE /\ ret' = "ve"
            /\ pc' = "done"
            /\ UNCHANGED <<out, ve, rel, failedAt>>
    /\ UNCHANGED <<acq, scanned, calloc0_null, loaderVars, resolveVars>>

Next ==
    \/ ElfVersion \/ AllocVe \/ OpenFile \/ ElfBegin \/ CheckHeader
    \/ ScanSection \/ ScanFails \/ EndOfSections
    \/ LookupFstubs \/ LookupVstubs

Spec == InitLoad /\ [][Next]_vars

----------------------------------------------------------------------------
(* Claims about vita_elf_load (Spec).                                      *)

Returned == pc = "done"

\* C1: vita_elf_load is all-or-nothing. Whatever FAIL is taken, NULL is
\* returned and every resource acquired so far (the descriptor, the Elf
\* handle, the three arrays, the struct) has been released exactly once; a
\* session is returned only when no stage failed, and then it holds what it
\* acquired. Nothing is ever released that was not acquired.
C1_AllOrNothing ==
    /\ \A r \in Resources : rel[r] <= acq[r] /\ acq[r] <= 1
    /\ Returned =>
          /\ failedAt # "none" <=> ret = "NULL"
          /\ ret = "NULL" => ve = NoVe /\ \A r \in Resources : rel[r] = acq[r]
          /\ ret = "ve" =>
                /\ \A r \in Resources : rel[r] = 0
                /\ ve.alloc /\ ve.fd >= 0 /\ ve.elf
                /\ acq["ve"] = 1 /\ acq["fd"] = 1 /\ acq["elf"] = 1
                /\ acq["fstubs"] = (IF ve.fstubs_ptr THEN 1 ELSE 0)
                /\ acq["vstubs"] = (IF ve.vstubs_ptr THEN 1 ELSE 0)
                /\ acq["symtab"] = (IF ve.symtab_ptr THEN 1 ELSE 0)

\* the correlator of the variable stubs fails with all six resources held:
\* each was acquired once and released once
C1_Witness ==
    /\ Returned /\ ret = "NULL" /\ failedAt = "lookup_vstubs"
    /\ \A r \in Resources : acq[r] = 1 /\ rel[r] = 1

\* C2: vita_elf_load returns a session only if the file holds exactly one
\* symbol table, at most one PROGBITS .vitalink.fstubs, at most one PROGBITS
\* .vitalink.vstubs, and at least one of the two stub sections (a second
\* symbol table makes the load fail even when the first holds no entries).
C2_SectionCounts ==
    (Returned /\ ret = "ve") =>
        /\ scanned["symtab"] = 1
        /\ scanned["fstubs"] <= 1
        /\ scanned["vstubs"] <= 1
        /\ scanned["fstubs"] + scanned["vstubs"] >= 1

\* C2 where calloc(0, n) does not return NULL: there the counts of C2 hold.
C2_WhereCallocZeroIsNotNull == ~calloc0_null => C2_SectionCounts

\* symbol i of the correlated table is a global function or object defined
\* in section ndx
InStubSection(symtab, i, ndx) ==
    /\ symtab[i + 1].binding = STB_GLOBAL
    /\ symtab[i + 1].type \in {STT_FUNC, STT_OBJECT}
    /\ symtab[i + 1].shndx = ndx

\* some symbol of the stub section has another kind than expected, points
\* at no stub, or points where an earlier symbol of the section points
SomeSymbolOffends(c) ==
    \E i \in 0..(c.num_symbols - 1) :
        /\ InStubSection(c.symtab, i, c.stubs_ndx)
        /\ \/ c.symtab[i + 1].type # c.sym_type
           \/ \A k \in 1..c.num_stubs : c.stubs[k].addr # c.symtab[i + 1].value
           \/ \E j \in 0..(i - 1) :
                 /\ InStubSection(c.symtab, j, c.stubs_ndx)
                 /\ c.symtab[j + 1].value = c.symtab[i + 1].value

\* C3: lookup_stub_symbols fails exactly when some global function or
\* object symbol defined in the stub section has a kind other than the
\* expected one, a value that is no stub's address, or a value at whose
\* stub an earlier symbol is attached; no other symbol makes it fail.
C3_FailsExactlyOnOffendingSymbol ==
    out.kind = "correlate" => (~out.res.ok <=> SomeSymbolOffends(out))

\* a second symbol with the value of a first: the call fails as a duplicate
C3_Witness ==
    /\ out.kind = "correlate" /\ ~out.res.ok /\ out.res.err = "duplicate"
    /\ out.num_stubs = 2

\* the stubs of the session that refer to symbol i: <<section index, stub>>
StubsOf(i) ==
    {<<ve.fstubs_ndx, k>> : k \in {k \in 1..ve.num_fstubs : ve.fstubs[k].symbol = i}}
    \cup {<<ve.vstubs_ndx, k>> : k \in {k \in 1..ve.num_vstubs : ve.vstubs[k].symbol = i}}

\* stub s of section ndx has no symbol, or that of a global function or
\* object of its section whose value is its address
WellAttached(s, ndx) ==
    \/ s.symbol = NoSym
    \/ /\ s.symbol \in 0..(ve.num_symbols - 1)
       /\ InStubSection(ve.symtab, s.symbol, ndx)
       /\ ve.symtab[s.symbol + 1].value = s.addr

\* C4: in a session vita_elf_load returned, every global function or
\* object symbol defined in a stub section is attached to exactly one stub,
\* which lies in that section at the symbol's value; a stub has a symbol
\* only if it is such a symbol of its own section at its own address.
C4_SymbolsAttachedOnce ==
    (Returned /\ ret = "ve") =>
        /\ \A i \in 0..(ve.num_symbols - 1) :
              \A ndx \in {ve.fstubs_ndx, ve.vstubs_ndx} \ {0} :
                  InStubSection(ve.symtab, i, ndx) =>
                      /\ Cardinality(StubsOf(i)) = 1
                      /\ \A st \in StubsOf(i) : st[1] = ndx
        /\ \A k \in 1..ve.num_fstubs : WellAttached(ve.fstubs[k], ve.fstubs_ndx)
        /\ \A k \in 1..ve.num_vstubs : WellAttached(ve.vstubs[k], ve.vstubs_ndx)

\* a session whose second function stub has a symbol, whose first has none,
\* and whose variable stub has one
C4_Witness ==
    /\ Returned /\ ret = "ve"
    /\ ve.num_fstubs = 2 /\ ve.fstubs[1].symbol = NoSym /\ ve.fstubs[2].symbol # NoSym
    /\ ve.num_vstubs >= 1 /\ ve.vstubs[1].symbol # NoSym

----------------------------------------------------------------------------
(* The import database (vita-import.h): libraries by NID, modules by NID   *)
(* within a library, functions and variables by NID within a module. An    *)
(* entry is named by the database that holds it and its NIDs.              *)

\* the database with every entry the stubs below ask for
FullDb(id) ==
    [id |-> id,
     libs |-> {1, 2},
     modules |-> {<<1, 2>>, <<2, 3>>},
     functions |-> {<<1, 2, 3>>, <<2, 3, 1>>},
     variables |-> {<<1, 2, 3>>, <<2, 3, 1>>}]

\* two full databases, and four that each lack one entry: library 1, module
\* 2 of library 1, function 3 of that module, variable 3 of that module
Databases ==
    {FullDb(1), FullDb(2),
     [FullDb(3) EXCEPT !.libs = {2}],
     [FullDb(4) EXCEPT !.modules = {<<2, 3>>}],
     [FullDb(5) EXCEPT !.functions = {<<2, 3, 1>>}],
     [FullDb(6) EXCEPT !.variables = {<<2, 3, 1>>}]}

DbOf(id) == CHOOSE d \in Databases : d.id = id

vita_imports_find_lib(db, nid) ==
    IF nid \in db.libs THEN <<"library", db.id, nid>> ELSE NULL

vita_imports_find_module(library, nid) ==
    IF <<library[3], nid>> \in DbOf(library[2]).modules
    THEN <<"module", library[2], library[3], nid>> ELSE NULL

vita_imports_find_function(module, nid) ==
    IF <<module[3], module[4], nid>> \in DbOf(module[2]).functions
    THEN <<"function", module[2], module[3], module[4], nid>> ELSE NULL

vita_imports_find_variable(module, nid) ==
    IF <<module[3], module[4], nid>> \in DbOf(module[2]).variables
    THEN <<"variable", module[2], module[3], module[4], nid>> ELSE NULL

----------------------------------------------------------------------------
(* lookup_stubs and vita_elf_lookup_imports                                *)

\* find_stub: the accessor vita_elf_lookup_imports passes for the array
find_stub(stub_type_name, module, nid) ==
    IF stub_type_name = "function" THEN vita_imports_find_function(module, nid)
    ELSE vita_imports_find_variable(module, nid)

\* stub->symbol ? stub->symbol->name : "(unreferenced stub)"
SymbolName(v, stub) ==
    IF stub.symbol # NoSym THEN v.symtab[stub.symbol + 1].name
    ELSE "(unreferenced stub)"

\* a warnx line: what was not found, the NID printed, the symbol's name
Warnx(missing, nid, name) == [missing |-> missing, nid |-> nid, symbol |-> name]

\* the body of the loop of lookup_stubs for one stub, lines 261-287: the
\* stub as it is left, and the lines printed
LookupStub(v, stub, db, stub_type_name) ==
    LET library == vita_imports_find_lib(db, stub.library_nid)
        module == vita_imports_find_module(library, stub.module_nid)
        target == find_stub(stub_type_name, module, stub.target_nid)
    IN  IF library = NULL
        THEN [stub |-> [stub EXCEPT !.library = NULL],
              warned |-> <<Warnx("library", stub.library_nid, SymbolName(v, stub))>>]
        ELSE IF module = NULL
        THEN [stub |-> [stub EXCEPT !.library = library, !.module = NULL],
              warned |-> <<Warnx("module", stub.module_nid, SymbolName(v, stub))>>]
        ELSE IF target = NULL
        THEN [stub |-> [stub EXCEPT !.library = library, !.module = module,
                                    !.target = NULL],
              warned |-> <<Warnx(stub_type_name, stub.module_nid, SymbolName(v, stub))>>]
        ELSE [stub |-> [stub EXCEPT !.library = library, !.module = module,
                                    !.target = target],
              warned |-> <<>>]

\* the loop of lookup_stubs from stub i on
RECURSIVE LookupFrom(_, _, _, _, _, _)
LookupFrom(v, stubs, num_stubs, db, stub_type_name, i) ==
    IF i > num_stubs THEN [stubs |-> stubs, found_all |-> TRUE, warned |-> <<>>]
    ELSE LET one == LookupStub(v, stubs[i], db, stub_type_name)
             rest == LookupFrom(v, [stubs EXCEPT ![i] = one.stub], num_stubs, db,
                                stub_type_name, i + 1)
         IN  [stubs |-> rest.stubs,
              found_all |-> one.warned = <<>> /\ rest.found_all,
              warned |-> one.warned \o rest.warned]

lookup_stubs(v, stubs, num_stubs, db, stub_type_name) ==
    LookupFrom(v, stubs, num_stubs, db, stub_type_name, 1)

\* the result of the second array alone
FoundAll_LastOnly(f_found, v_found) == v_found

\* lines 295-302: found_all of vita_elf_lookup_imports
FoundAll(f_found, v_found) ==
    IF ~f_found THEN FALSE ELSE IF ~v_found THEN FALSE ELSE TRUE

----------------------------------------------------------------------------
(* SpecResolve: vita_elf_lookup_imports called, one call after the other,  *)
(* on a session as vita_elf_load returns it.                               *)

\* stubs a session's function-stub array may hold
MaxFStubs == 2
\* stubs a session's variable-stub array may hold
MaxVStubs == 1
\* calls of vita_elf_lookup_imports on one session
MaxCalls == 2

SymNames == <<"foo", "bar", "baz", "qux", "quux", "corge">>

\* what a stub entry asks for, and whether a symbol names it
StubShapes ==
    {[nids |-> n, named |-> b] : n \in {<<1, 2, 3>>, <<2, 3, 1>>}, b \in BOOLEAN}

\* the k-th stub of the section at `base`, named by symbol `symndx` if at all
ShapedStub(shape, base, k, symndx) ==
    [ZeroStub EXCEPT !.addr = base + StubEntSize * (k - 1),
                     !.library_nid = shape.nids[1],
                     !.module_nid = shape.nids[2],
                     !.target_nid = shape.nids[3],
                     !.symbol = IF shape.named THEN symndx ELSE NoSym]

\* the symbol that names a stub; a stub no symbol names leaves a local one
ShapedSym(shape, stub, symndx, type, shndx) ==
    [name |-> SymNames[(symndx % Len(SymNames)) + 1], value |-> stub.addr,
     type |-> type,
     binding |-> IF shape.named THEN STB_GLOBAL ELSE STB_LOCAL,
     shndx |-> shndx]

\* the session of a file with function stubs fs in section 1, variable
\* stubs vs in section 2 and one symbol per stub after the null symbol
Session(fs, vs) ==
    LET nf == Len(fs)
        nv == Len(vs)
        f == [k \in 1..nf |-> ShapedStub(fs[k], 16, k, k)]
        w == [k \in 1..nv |-> ShapedStub(vs[k], 16, k, nf + k)]
    IN  [NoVe EXCEPT
           !.alloc = TRUE, !.fd = 3, !.elf = TRUE,
           !.fstubs_ndx = 1, !.num_fstubs = nf, !.fstubs_ptr = nf > 0, !.fstubs = f,
           !.vstubs_ndx = IF nv > 0 THEN 2 ELSE 0, !.num_vstubs = nv,
           !.vstubs_ptr = nv > 0, !.vstubs = w,
           !.num_symbols = 1 + nf + nv, !.symtab_ptr = TRUE,
           !.symtab = <<ZeroSym>>
               \o [k \in 1..nf |-> ShapedSym(fs[k], f[k], k, STT_FUNC, 1)]
               \o [k \in 1..nv |-> ShapedSym(vs[k], w[k], nf + k, STT_OBJECT, 2)]]

Sessions ==
    {Session(fs, vs) : fs \in SeqsUpTo(StubShapes, MaxFStubs),
                       vs \in SeqsUpTo(StubShapes, MaxVStubs)}

NoDb == [id |-> 0]

InitResolve ==
    /\ pc = "session"
    /\ ve \in Sessions
    /\ imports = NoDb
    /\ found_all = FALSE
    /\ diag = <<>>
    /\ ncalls = 0
    /\ out = NoOut /\ scn = Unused /\ calloc0_null = FALSE
    /\ ret = "ve" /\ acq = Unused /\ rel = Unused
    /\ scanned = Unused /\ failedAt = "none"

\* vita_elf_lookup_imports(ve, db), lines 293-303
LookupImports ==
    /\ pc = "session"
    /\ ncalls < MaxCalls
    /\ \E db \in Databases :
          LET f == lookup_stubs(ve, ve.fstubs, ve.num_fstubs, db, "function")
              v == lookup_stubs(ve, ve.vstubs, ve.num_vstubs, db, "variable")
          IN  /\ ve' = [ve EXCEPT !.fstubs = f.stubs, !.vstubs = v.stubs]
              /\ found_all' = FoundAll(f.found_all, v.found_all)
              /\ diag' = f.warned \o v.warned
              /\ imports' = db
    /\ ncalls' = ncalls + 1
    /\ UNCHANGED <<pc, out, loaderVars, loadVars>>

NextResolve == LookupImports

SpecResolve == InitResolve /\ [][NextResolve]_vars

----------------------------------------------------------------------------
(* Claims about vita_elf_lookup_imports (SpecResolve).                     *)

Called == pc = "session" /\ ncalls > 0

\* the entries of the last database a stub of the given kind asks for
HasLibrary(s) == s.library_nid \in imports.libs
HasModule(s) == HasLibrary(s) /\ <<s.library_nid, s.module_nid>> \in imports.modules
HasTarget(s, kind) ==
    /\ HasModule(s)
    /\ <<s.library_nid, s.module_nid, s.target_nid>>
          \in (IF kind = "function" THEN imports.functions ELSE imports.variables)

\* the stubs of both arrays, each with its kind
AllStubs ==
    {[stub |-> ve.fstubs[k], kind |-> "function"] : k \in 1..ve.num_fstubs}
    \cup {[stub |-> ve.vstubs[k], kind |-> "variable"] : k \in 1..ve.num_vstubs}

\* C7: vita_elf_lookup_imports looks every stub of both arrays up, whatever
\* became of the stubs before it and of the other array, and returns true
\* exactly when every stub found its library, its module in that library and
\* its target in that module (a function for a function stub, a variable
\* for a variable stub); when it returns true every stub has its library,
\* module and target.
C7_TrueIffAllResolved ==
    Called =>
        /\ found_all <=> \A x \in AllStubs : HasTarget(x.stub, x.kind)
        /\ \A x \in AllStubs :
              /\ x.stub.library # NULL <=> HasLibrary(x.stub)
              /\ HasLibrary(x.stub) => (x.stub.module # NULL <=> HasModule(x.stub))
              /\ HasModule(x.stub) => (x.stub.target # NULL <=> HasTarget(x.stub, x.kind))
        /\ found_all =>
              \A x \in AllStubs :
                  x.stub.library # NULL /\ x.stub.module # NULL /\ x.stub.target # NULL

\* the first function stub misses its library, the second function stub and
\* the variable stub resolve, and the call returns false
C7_Witness ==
    /\ Called /\ ~found_all
    /\ ve.num_fstubs = 2 /\ ve.num_vstubs = 1
    /\ ve.fstubs[1].library = NULL
    /\ ve.fstubs[2].target # NULL
    /\ ve.vstubs[1].target # NULL

\* the line a stub that does not resolve asks for: the stage that missed,
\* the NID looked up at that stage, and the name of the stub's symbol
ExpectedWarnx(s, kind) ==
    LET name == IF s.symbol # NoSym THEN ve.symtab[s.symbol + 1].name
                ELSE "(unreferenced stub)"
    IN  IF ~HasLibrary(s) THEN <<Warnx("library", s.library_nid, name)>>
        ELSE IF ~HasModule(s) THEN <<Warnx("module", s.module_nid, name)>>
        ELSE IF ~HasTarget(s, kind) THEN <<Warnx(kind, s.target_nid, name)>>
        ELSE <<>>

RECURSIVE ExpectedDiag(_, _, _)
ExpectedDiag(stubs, kind, i) ==
    IF i > Len(stubs) THEN <<>>
    ELSE ExpectedWarnx(stubs[i], kind) \o ExpectedDiag(stubs, kind, i + 1)

\* C9: a call of vita_elf_lookup_imports prints one line for each stub that
\* does not resolve and none for a stub that resolves; the line names the
\* stage that missed, the NID looked up at that stage (library_nid,
\* module_nid or target_nid) and the symbol's name, or "(unreferenced stub)".
C9_OneLinePerMissWithItsNid ==
    Called =>
        diag = ExpectedDiag(ve.fstubs, "function", 1)
                   \o ExpectedDiag(ve.vstubs, "variable", 1)

\* C9 for the stubs that miss their library or their module: where no stub
\* misses its target alone, the lines are the expected ones.
C9_LibraryAndModuleLines ==
    (Called /\ \A x \in AllStubs : HasModule(x.stub) => HasTarget(x.stub, x.kind))
        => C9_OneLinePerMissWithItsNid

\* C10: after any calls of vita_elf_lookup_imports on a session, a stub has
\* a module only if it has a library and a target only if it has a module,
\* and each reference it has is what the last database returns for its
\* NIDs: nothing is left over from an earlier call.
C10_NothingLeftOver ==
    Called =>
        \A x \in AllStubs :
            /\ x.stub.module # NULL => x.stub.library # NULL
            /\ x.stub.target # NULL => x.stub.module # NULL
            /\ x.stub.library # NULL =>
                  x.stub.library = vita_imports_find_lib(imports, x.stub.library_nid)
            /\ x.stub.module # NULL =>
                  /\ HasModule(x.stub)
                  /\ x.stub.module[2] = imports.id
            /\ x.stub.target # NULL =>
                  /\ HasTarget(x.stub, x.kind)
                  /\ x.stub.target[2] = imports.id

\* C10 after the first call on a session: nothing can be left over yet.
C10_AfterFirstCall == ncalls = 1 => C10_NothingLeftOver

====
